---- MODULE Spec2Model ----
(***************************************************************************)
(* ChronoTerra, script.js: a rotatable, zoomable globe.                    *)
(*                                                                         *)
(* Numbers.  The script computes in IEEE doubles.  The model keeps them as *)
(* decimal fixed point:                                                    *)
(*   - angles and momenta are integers in units of 1/Unit radian           *)
(*     (Unit = 10^7), so 0.15 is 1500000, 0.009 is 90000, 0.001 is 10000;  *)
(*     the product with momentumDecay = 0.01 is the quotient by 100        *)
(*     rounded toward zero, i.e. a momentum below 1/Unit becomes 0 (a      *)
(*     double reaches 0 the same way, only after far more frames);         *)
(*   - the zoom distance is an integer number of tenths (1.8 is 18).       *)
(* Pointer coordinates are integer pixels.                                 *)
(***************************************************************************)
EXTENDS Integers, Sequences, FiniteSets, TLC

VARIABLES
  \* interaction / momentum engine (script.js 138-145) and the mesh rotation
  isDragging, previousMousePosition, momentumX, momentumY,
  rotationX, rotationY,
  \* host environment: what is physically held on the canvas
  mouseHeld, touches,
  \* render loop
  pendingFrames,
  \* bookkeeping of the exploration: steps that moved the globe so far, and
  \* the number of idle frames run since the last drag end (-1: none yet, or
  \* a drag has started since)
  steps, idleFrames,
  \* zoom
  currentZoom, cameraZ, zoomLog,
  \* material and texture loader
  color, map, needsUpdate, inflight, nextFetch, lastDone, overlapped,
  \* the value of the era selection control
  selectedEra,
  \* viewport: window.innerWidth, the renderer's size in tenths of a pixel,
  \* camera.aspect, and the widths of the resize notifications so far
  innerWidth, rendererSize, cameraAspect, resizeLog,
  \* page initialisation
  pc, dom, caught, canvasOnPage, errorShown, yearSet

vars == <<isDragging, previousMousePosition, momentumX, momentumY,
          rotationX, rotationY, mouseHeld, touches, pendingFrames,
          steps, idleFrames, currentZoom, cameraZ, zoomLog,
          color, map, needsUpdate, inflight, nextFetch, lastDone, overlapped,
          selectedEra, innerWidth, rendererSize, cameraAspect, resizeLog,
          pc, dom, caught, canvasOnPage, errorShown, yearSet>>

dragVars == <<isDragging, previousMousePosition, momentumX, momentumY,
              rotationX, rotationY, mouseHeld, touches, pendingFrames,
              steps, idleFrames>>
zoomVars == <<currentZoom, cameraZ, zoomLog>>
materialVars == <<color, map, needsUpdate, inflight, nextFetch, lastDone,
                  overlapped>>
textureVars == <<materialVars, selectedEra>>
viewVars == <<innerWidth, rendererSize, cameraAspect, resizeLog>>
pageVars == <<pc, dom, caught, canvasOnPage, errorShown, yearSet>>

(***************************************************************************)
(* Bounds of the exploration.                                              *)
(***************************************************************************)
MaxSteps == 5        \* drag-moves and idle frames that move the globe
MaxTouches == 1      \* fingers on the canvas at once
MaxClicks == 7       \* zoom button clicks
MaxLoads == 3        \* loadTexture calls, the initial one included
MaxResizes == 3      \* resize notifications

\* pointer positions an event can carry, in pixels: between them the deltas
\* on x are 0, 11 (0.099, below the clamp and below 0.1), 89 and 100 (0.9,
\* above the clamp) and on y 0 and 11, in both directions
Positions == {[x |-> 0, y |-> 0], [x |-> 100, y |-> 0], [x |-> 11, y |-> 11]}

(***************************************************************************)
(* Constants of the script.                                                *)
(***************************************************************************)
Unit == 10^7
rotationSpeed == 9 * (Unit \div 1000)
momentumDecay == 100                     \* 0.01, as a divisor
maxMomentum == 15 * (Unit \div 100)
sensitivity == 9 * (Unit \div 1000)      \* 0.009 per pixel
autoRotateThreshold == Unit \div 1000    \* 0.001

Abs(n) == IF n < 0 THEN -n ELSE n
Min(a, b) == IF a < b THEN a ELSE b
Max(a, b) == IF a > b THEN a ELSE b

\* the clamp without its lower side
ClampMomentumUpperOnly(delta) == Min(maxMomentum, delta * sensitivity)

\* Math.min(maxMomentum, Math.max(-maxMomentum, delta * sensitivity))
ClampMomentum(delta) == Min(maxMomentum, Max(-maxMomentum, delta * sensitivity))

\* a decay of 0.95 per frame instead of 0.01
DecaySlow(m) == IF m >= 0 THEN (m * 95) \div 100 ELSE -(((-m) * 95) \div 100)

\* m *= momentumDecay
Decay(m) == IF m >= 0 THEN m \div momentumDecay ELSE -((-m) \div momentumDecay)

(***************************************************************************)
(* Drag handlers.                                                          *)
(***************************************************************************)
\* the move body without the isDragging test
DragMoveAlways(p) ==
  /\ steps < MaxSteps
  /\ momentumX' = ClampMomentum(p.x - previousMousePosition.x)
  /\ momentumY' = ClampMomentum(p.y - previousMousePosition.y)
  /\ rotationY' = rotationY + momentumX'
  /\ rotationX' = rotationX + momentumY'
  /\ previousMousePosition' = p
  /\ steps' = steps + 1

\* the move body rotating by the raw scaled delta instead of the clamped one
DragMoveRawRotation(p) ==
  IF isDragging
  THEN /\ steps < MaxSteps
       /\ momentumX' = ClampMomentum(p.x - previousMousePosition.x)
       /\ momentumY' = ClampMomentum(p.y - previousMousePosition.y)
       /\ rotationY' = rotationY + (p.x - previousMousePosition.x) * sensitivity
       /\ rotationX' = rotationX + (p.y - previousMousePosition.y) * sensitivity
       /\ previousMousePosition' = p
       /\ steps' = steps + 1
  ELSE UNCHANGED <<momentumX, momentumY, rotationX, rotationY,
                   previousMousePosition, steps>>

\* the body shared by the mousemove and touchmove listeners
DragMove(p) ==
  IF isDragging
  THEN /\ steps < MaxSteps
       /\ momentumX' = ClampMomentum(p.x - previousMousePosition.x)
       /\ momentumY' = ClampMomentum(p.y - previousMousePosition.y)
       /\ rotationY' = rotationY + momentumX'
       /\ rotationX' = rotationX + momentumY'
       /\ previousMousePosition' = p
       /\ steps' = steps + 1
  ELSE UNCHANGED <<momentumX, momentumY, rotationX, rotationY,
                   previousMousePosition, steps>>

\* a press that also stops the globe
MouseDownResetMomentum ==
  \E p \in Positions :
    /\ ~mouseHeld
    /\ mouseHeld' = TRUE
    /\ isDragging' = TRUE
    /\ previousMousePosition' = p
    /\ idleFrames' = -1
    /\ momentumX' = 0
    /\ momentumY' = 0
    /\ UNCHANGED <<rotationX, rotationY, touches, pendingFrames, steps>>

MouseDown ==
  \E p \in Positions :
    /\ ~mouseHeld
    /\ mouseHeld' = TRUE
    /\ isDragging' = TRUE
    /\ previousMousePosition' = p
    /\ idleFrames' = -1
    /\ UNCHANGED <<momentumX, momentumY, rotationX, rotationY, touches,
                   pendingFrames, steps>>

MouseMove ==
  \E p \in Positions :
    /\ DragMove(p)
    /\ UNCHANGED <<isDragging, mouseHeld, touches, pendingFrames, idleFrames>>

\* a release that also stops the globe
MouseUpResetMomentum ==
  /\ mouseHeld
  /\ mouseHeld' = FALSE
  /\ isDragging' = FALSE
  /\ idleFrames' = 0
  /\ momentumX' = 0
  /\ momentumY' = 0
  /\ UNCHANGED <<previousMousePosition, rotationX, rotationY, touches,
                 pendingFrames, steps>>

MouseUp ==
  /\ mouseHeld
  /\ mouseHeld' = FALSE
  /\ isDragging' = FALSE
  /\ idleFrames' = 0
  /\ UNCHANGED <<previousMousePosition, momentumX, momentumY, rotationX,
                 rotationY, touches, pendingFrames, steps>>

MouseLeave ==
  /\ mouseHeld' = FALSE
  /\ isDragging' = FALSE
  /\ idleFrames' = 0
  /\ UNCHANGED <<previousMousePosition, momentumX, momentumY, rotationX,
                 rotationY, touches, pendingFrames, steps>>

\* e.touches after removing the i-th touch
RemoveAt(s, i) == [j \in 1..(Len(s) - 1) |-> IF j < i THEN s[j] ELSE s[j + 1]]

TouchStart ==
  \E p \in Positions :
    /\ Len(touches) < MaxTouches
    /\ touches' = Append(touches, p)
    /\ isDragging' = TRUE
    /\ previousMousePosition' = touches'[1]
    /\ idleFrames' = -1
    /\ UNCHANGED <<momentumX, momentumY, rotationX, rotationY, mouseHeld,
                   pendingFrames, steps>>

TouchMove ==
  \E i \in 1..Len(touches), p \in Positions :
    /\ touches' = [touches EXCEPT ![i] = p]
    /\ DragMove(touches'[1])
    /\ UNCHANGED <<isDragging, mouseHeld, pendingFrames, idleFrames>>

TouchEnd ==
  \E i \in 1..Len(touches) :
    /\ touches' = RemoveAt(touches, i)
    /\ isDragging' = FALSE
    /\ idleFrames' = 0
    /\ UNCHANGED <<previousMousePosition, momentumX, momentumY, rotationX,
                   rotationY, mouseHeld, pendingFrames, steps>>

\* the browser cancels a touch (a system gesture, an alert, the tab losing
\* focus): the script registers no touchcancel listener
TouchCancel ==
  \E i \in 1..Len(touches) :
    /\ touches' = RemoveAt(touches, i)
    /\ UNCHANGED <<isDragging, previousMousePosition, momentumX, momentumY,
                   rotationX, rotationY, mouseHeld, pendingFrames, steps,
                   idleFrames>>

(***************************************************************************)
(* Render loop.                                                            *)
(***************************************************************************)
\* a frame that does not request the next one
animateNoReschedule ==
  /\ pendingFrames > 0
  /\ pendingFrames' = pendingFrames - 1
  /\ IF ~isDragging
     THEN /\ steps < MaxSteps
          /\ momentumX' = Decay(momentumX)
          /\ momentumY' = Decay(momentumY)
          /\ rotationX' = rotationX + momentumY
          /\ rotationY' = rotationY + momentumX
               + (IF Abs(momentumX') < autoRotateThreshold
                     /\ Abs(momentumY') < autoRotateThreshold
                  THEN rotationSpeed ELSE 0)
          /\ steps' = steps + 1
          /\ idleFrames' = IF idleFrames >= 0 THEN idleFrames + 1 ELSE idleFrames
     ELSE UNCHANGED <<momentumX, momentumY, rotationX, rotationY, steps,
                      idleFrames>>
  /\ UNCHANGED <<isDragging, previousMousePosition, mouseHeld, touches>>

\* a frame that applies and decays the momentum during a drag as well
animateWhileDragging ==
  /\ pendingFrames > 0
  /\ pendingFrames' = (pendingFrames - 1) + 1
  /\ steps < MaxSteps
  /\ momentumX' = Decay(momentumX)
  /\ momentumY' = Decay(momentumY)
  /\ rotationX' = rotationX + momentumY
  /\ rotationY' = rotationY + momentumX
       + (IF Abs(momentumX') < autoRotateThreshold
             /\ Abs(momentumY') < autoRotateThreshold
          THEN rotationSpeed ELSE 0)
  /\ steps' = steps + 1
  /\ idleFrames' = IF idleFrames >= 0 THEN idleFrames + 1 ELSE idleFrames
  /\ UNCHANGED <<isDragging, previousMousePosition, mouseHeld, touches>>

\* a frame that tests the auto-rotation threshold before the decay
animateTestBeforeDecay ==
  /\ pendingFrames > 0
  /\ pendingFrames' = (pendingFrames - 1) + 1
  /\ IF ~isDragging
     THEN /\ steps < MaxSteps
          /\ momentumX' = Decay(momentumX)
          /\ momentumY' = Decay(momentumY)
          /\ rotationX' = rotationX + momentumY
          /\ rotationY' = rotationY + momentumX
               + (IF Abs(momentumX) < autoRotateThreshold
                     /\ Abs(momentumY) < autoRotateThreshold
                  THEN rotationSpeed ELSE 0)
          /\ steps' = steps + 1
          /\ idleFrames' = IF idleFrames >= 0 THEN idleFrames + 1 ELSE idleFrames
     ELSE UNCHANGED <<momentumX, momentumY, rotationX, rotationY, steps,
                      idleFrames>>
  /\ UNCHANGED <<isDragging, previousMousePosition, mouseHeld, touches>>

animate ==
  /\ pendingFrames > 0
  /\ pendingFrames' = (pendingFrames - 1) + 1
  /\ IF ~isDragging
     THEN /\ steps < MaxSteps
          /\ momentumX' = Decay(momentumX)
          /\ momentumY' = Decay(momentumY)
          /\ rotationX' = rotationX + momentumY
          /\ rotationY' = rotationY + momentumX
               + (IF Abs(momentumX') < autoRotateThreshold
                     /\ Abs(momentumY') < autoRotateThreshold
                  THEN rotationSpeed ELSE 0)
          /\ steps' = steps + 1
          /\ idleFrames' = IF idleFrames >= 0 THEN idleFrames + 1 ELSE idleFrames
     ELSE UNCHANGED <<momentumX, momentumY, rotationX, rotationY, steps,
                      idleFrames>>
  /\ UNCHANGED <<isDragging, previousMousePosition, mouseHeld, touches>>

(***************************************************************************)
(* Zoom buttons.                                                           *)
(***************************************************************************)
MinZoom == 5         \* 0.5, in tenths
MaxZoom == 30        \* 3
ZoomStep == 3        \* 0.3
InitialZoom == 18    \* 1.8

\* zoomIn saturating at 0 instead of 0.5
zoomInClampZero ==
  /\ Len(zoomLog) < MaxClicks
  /\ currentZoom' = Max(0, currentZoom - ZoomStep)
  /\ cameraZ' = currentZoom'
  /\ zoomLog' = Append(zoomLog, "in")

zoomIn ==
  /\ Len(zoomLog) < MaxClicks
  /\ currentZoom' = Max(MinZoom, currentZoom - ZoomStep)
  /\ cameraZ' = currentZoom'
  /\ zoomLog' = Append(zoomLog, "in")

\* zoomOut without the upper bound
zoomOutUnclamped ==
  /\ Len(zoomLog) < MaxClicks
  /\ currentZoom' = currentZoom + ZoomStep
  /\ cameraZ' = currentZoom'
  /\ zoomLog' = Append(zoomLog, "out")

zoomOut ==
  /\ Len(zoomLog) < MaxClicks
  /\ currentZoom' = Min(MaxZoom, currentZoom + ZoomStep)
  /\ cameraZ' = currentZoom'
  /\ zoomLog' = Append(zoomLog, "out")

(***************************************************************************)
(* Viewport.                                                               *)
(***************************************************************************)
MaxSize == 400       \* pixels
SizeFactor == 8      \* 0.8, in tenths

\* viewport widths a resize can report: 0.8 times the width is below 400
\* (240 and 399.2), exactly 400, and above it
Widths == {300, 499, 500, 501, 1000}
InitialWidth == 1000

\* the size computed from the width without the factor 0.8
resizeRendererFullWidth(w) ==
  /\ rendererSize' = Min(MaxSize * 10, w * 10)
  /\ cameraAspect' = 1

\* resizeRenderer() at window.innerWidth = w
resizeRenderer(w) ==
  /\ rendererSize' = Min(MaxSize * 10, w * SizeFactor)
  /\ cameraAspect' = 1

\* the window's resize notification
Resize ==
  \E w \in Widths :
    /\ Len(resizeLog) < MaxResizes
    /\ innerWidth' = w
    /\ resizeRenderer(w)
    /\ resizeLog' = Append(resizeLog, w)

(***************************************************************************)
(* Texture loader and era selection.                                       *)
(***************************************************************************)
DefaultColor == 16777215     \* 0xffffff, the material's colour when none is given
PlaceholderColor == 3355443  \* 0x333333
FallbackColor == 3368652     \* 0x3366cc
NoMap == "null"

eraTextures ==
  [modern |-> "textures/earth_night.jpg",
   ancient |-> "textures/earth old.jpg",
   prehistoric |-> "dinoera.jpg",
   dinosaurs |-> "textures/clouds.png",
   formation |-> "textures/eartrh_bump.jpg"]

\* members every object literal inherits from Object.prototype; the value
\* read through eraTextures[key] is a function, written here as the text the
\* loader turns it into when it uses it as a locator
ObjectPrototype ==
  [constructor |-> "function Object() { [native code] }"]

Undefined == "undefined"

\* eraTextures[selectedEra]: own property first, then the prototype chain
GetProperty(key) ==
  IF key \in DOMAIN eraTextures THEN eraTextures[key]
  ELSE IF key \in DOMAIN ObjectPrototype THEN ObjectPrototype[key]
  ELSE Undefined

\* values the selection control may carry
EraKeys == DOMAIN eraTextures \cup {"unknown", "", "constructor"}

loadTexture(url) ==
  /\ nextFetch <= MaxLoads
  /\ color' = PlaceholderColor
  /\ inflight' = inflight \cup {[id |-> nextFetch, url |-> url]}
  /\ nextFetch' = nextFetch + 1
  /\ overlapped' = (overlapped \/ inflight # {})
  /\ UNCHANGED <<map, needsUpdate, lastDone>>

\* a success callback that also puts the colour back to white
TextureLoadedResetColor ==
  \E f \in inflight :
    /\ map' = f.url
    /\ color' = DefaultColor
    /\ needsUpdate' = TRUE
    /\ inflight' = inflight \ {f}
    /\ lastDone' = [id |-> f.id, url |-> f.url, ok |-> TRUE]
    /\ UNCHANGED <<nextFetch, overlapped, selectedEra>>

\* the loader's success callback for one fetch in flight
TextureLoaded ==
  \E f \in inflight :
    /\ map' = f.url
    /\ needsUpdate' = TRUE
    /\ inflight' = inflight \ {f}
    /\ lastDone' = [id |-> f.id, url |-> f.url, ok |-> TRUE]
    /\ UNCHANGED <<color, nextFetch, overlapped, selectedEra>>

\* the loader's error callback for one fetch in flight
TextureError ==
  \E f \in inflight :
    /\ color' = FallbackColor
    /\ needsUpdate' = TRUE
    /\ inflight' = inflight \ {f}
    /\ lastDone' = [id |-> f.id, url |-> f.url, ok |-> FALSE]
    /\ UNCHANGED <<map, nextFetch, overlapped, selectedEra>>

\* the change event of the selection control: its value has changed to key
EraChange ==
  \E key \in EraKeys \ {selectedEra} :
    /\ selectedEra' = key
    /\ IF GetProperty(key) # Undefined
       THEN loadTexture(GetProperty(key))
       ELSE UNCHANGED materialVars

(***************************************************************************)
(* Page initialisation: the top-level try/catch and the footer line.       *)
(* dom says which elements the page has and whether a WebGL context can be *)
(* created.                                                                *)
(***************************************************************************)
DomStates == [canvas : BOOLEAN, webgl : BOOLEAN, display : BOOLEAN,
              selector : BOOLEAN, year : BOOLEAN]

\* lines 3-12: look the canvas up and construct the renderer.  Without a
\* WebGL context the constructor throws.  With canvas === null the library
\* either throws here or fails later; the script then throws at line 148.
CreateRenderer ==
  /\ pc = "renderer"
  /\ \/ /\ dom.webgl /\ dom.canvas
        /\ pc' = "zoomControls"
     \/ /\ ~dom.webgl \/ ~dom.canvas
        /\ pc' = "catch"
     \/ /\ dom.webgl /\ ~dom.canvas
        /\ pc' = "zoomControls"
  /\ UNCHANGED <<dom, caught, canvasOnPage, errorShown, yearSet>>
  /\ UNCHANGED <<dragVars, zoomVars, textureVars, viewVars>>

\* lines 15-48: scene, camera (aspect 1), zoom buttons, appended to .earth-display
AppendZoomControls ==
  /\ pc = "zoomControls"
  /\ currentZoom' = InitialZoom
  /\ cameraZ' = InitialZoom
  /\ pc' = IF dom.display THEN "loadInitial" ELSE "catch"
  /\ UNCHANGED <<zoomLog, dom, caught, canvasOnPage, errorShown, yearSet>>
  /\ cameraAspect' = 1
  /\ UNCHANGED <<innerWidth, rendererSize, resizeLog>>
  /\ UNCHANGED <<dragVars, textureVars>>

\* lines 51-135: mesh, lights, resizeRenderer(), loadTexture(eraTextures.modern)
LoadInitialTexture ==
  /\ pc = "loadInitial"
  /\ loadTexture(eraTextures.modern)
  /\ pc' = "listeners"
  /\ UNCHANGED selectedEra
  /\ UNCHANGED <<dom, caught, canvasOnPage, errorShown, yearSet>>
  /\ resizeRenderer(innerWidth)
  /\ UNCHANGED <<innerWidth, resizeLog>>
  /\ UNCHANGED <<dragVars, zoomVars>>

\* lines 138-195: canvas.addEventListener(...), a TypeError on null
AddCanvasListeners ==
  /\ pc = "listeners"
  /\ pc' = IF dom.canvas THEN "animate" ELSE "catch"
  /\ UNCHANGED <<dom, caught, canvasOnPage, errorShown, yearSet>>
  /\ UNCHANGED <<dragVars, zoomVars, textureVars, viewVars>>

\* line 218: the first call of animate() schedules the next frame and runs
\* the frame body once (momentum is 0, so it only auto-rotates)
StartAnimation ==
  /\ pc = "animate"
  /\ pendingFrames' = pendingFrames + 1
  /\ rotationY' = rotationY + momentumX + rotationSpeed
  /\ rotationX' = rotationX + momentumY
  /\ pc' = "eraSelector"
  /\ UNCHANGED <<isDragging, previousMousePosition, momentumX, momentumY,
                 mouseHeld, touches, steps, idleFrames>>
  /\ UNCHANGED <<dom, caught, canvasOnPage, errorShown, yearSet>>
  /\ UNCHANGED <<zoomVars, textureVars, viewVars>>

\* lines 221-226: document.getElementById('eraSelector').addEventListener
AddEraListener ==
  /\ pc = "eraSelector"
  /\ pc' = IF dom.selector THEN "footer" ELSE "catch"
  /\ UNCHANGED <<dom, caught, canvasOnPage, errorShown, yearSet>>
  /\ UNCHANGED <<dragVars, zoomVars, textureVars, viewVars>>

\* lines 228-245: the catch block; canvas.parentNode on a null canvas throws
\* out of the handler and ends the script
CatchBlock ==
  /\ pc = "catch"
  /\ caught' = caught + 1
  /\ IF dom.canvas
     THEN /\ canvasOnPage' = FALSE
          /\ errorShown' = TRUE
          /\ pc' = "footer"
     ELSE /\ pc' = "aborted"
          /\ UNCHANGED <<canvasOnPage, errorShown>>
  /\ UNCHANGED <<dom, yearSet>>
  /\ UNCHANGED <<dragVars, zoomVars, textureVars, viewVars>>

\* line 248
FooterYear ==
  /\ pc = "footer"
  /\ IF dom.year
     THEN /\ yearSet' = TRUE
          /\ pc' = "done"
     ELSE /\ pc' = "aborted"
          /\ UNCHANGED yearSet
  /\ UNCHANGED <<dom, caught, canvasOnPage, errorShown>>
  /\ UNCHANGED <<dragVars, zoomVars, textureVars, viewVars>>

(***************************************************************************)
(* Specifications.                                                         *)
(***************************************************************************)
\* the page before the script runs
InitPage ==
  /\ isDragging = FALSE
  /\ previousMousePosition = [x |-> 0, y |-> 0]
  /\ momentumX = 0 /\ momentumY = 0
  /\ rotationX = 0 /\ rotationY = 0
  /\ mouseHeld = FALSE /\ touches = <<>>
  /\ pendingFrames = 0
  /\ steps = 0 /\ idleFrames = -1
  /\ currentZoom = InitialZoom /\ cameraZ = InitialZoom /\ zoomLog = <<>>
  /\ color = DefaultColor /\ map = NoMap /\ needsUpdate = FALSE
  /\ inflight = {} /\ nextFetch = 1
  /\ lastDone = [id |-> 0, url |-> NoMap, ok |-> TRUE]
  /\ overlapped = FALSE
  /\ selectedEra = "modern"
  /\ innerWidth = InitialWidth /\ rendererSize = 0 /\ cameraAspect = 0
  /\ resizeLog = <<>>
  /\ pc = "renderer"
  /\ dom \in DomStates
  /\ caught = 0
  /\ canvasOnPage = dom.canvas
  /\ errorShown = FALSE
  /\ yearSet = FALSE

NextPage ==
  \/ CreateRenderer
  \/ AppendZoomControls
  \/ LoadInitialTexture
  \/ AddCanvasListeners
  \/ StartAnimation
  \/ AddEraListener
  \/ CatchBlock
  \/ FooterYear

PageSpec == InitPage /\ [][NextPage]_vars

\* the state after the script has run to its end on a complete page
Init ==
  /\ isDragging = FALSE
  /\ previousMousePosition = [x |-> 0, y |-> 0]
  /\ momentumX = 0 /\ momentumY = 0
  /\ rotationX = 0 /\ rotationY = rotationSpeed
  /\ mouseHeld = FALSE /\ touches = <<>>
  /\ pendingFrames = 1
  /\ steps = 0 /\ idleFrames = -1
  /\ currentZoom = InitialZoom /\ cameraZ = InitialZoom /\ zoomLog = <<>>
  /\ color = PlaceholderColor /\ map = NoMap /\ needsUpdate = FALSE
  /\ inflight = {[id |-> 1, url |-> eraTextures.modern]} /\ nextFetch = 2
  /\ lastDone = [id |-> 0, url |-> NoMap, ok |-> TRUE]
  /\ overlapped = FALSE
  /\ selectedEra = "modern"
  /\ innerWidth = InitialWidth /\ rendererSize = MaxSize * 10
  /\ cameraAspect = 1 /\ resizeLog = <<>>
  /\ pc = "done"
  /\ dom = [canvas |-> TRUE, webgl |-> TRUE, display |-> TRUE,
            selector |-> TRUE, year |-> TRUE]
  /\ caught = 0
  /\ canvasOnPage = TRUE
  /\ errorShown = FALSE
  /\ yearSet = TRUE

\* pointer, touch and frame events
Next ==
  \/ MouseDown /\ UNCHANGED <<zoomVars, textureVars, pageVars, viewVars>>
  \/ MouseMove /\ UNCHANGED <<zoomVars, textureVars, pageVars, viewVars>>
  \/ MouseUp /\ UNCHANGED <<zoomVars, textureVars, pageVars, viewVars>>
  \/ MouseLeave /\ UNCHANGED <<zoomVars, textureVars, pageVars, viewVars>>
  \/ TouchStart /\ UNCHANGED <<zoomVars, textureVars, pageVars, viewVars>>
  \/ TouchMove /\ UNCHANGED <<zoomVars, textureVars, pageVars, viewVars>>
  \/ TouchEnd /\ UNCHANGED <<zoomVars, textureVars, pageVars, viewVars>>
  \/ TouchCancel /\ UNCHANGED <<zoomVars, textureVars, pageVars, viewVars>>
  \/ animate /\ UNCHANGED <<zoomVars, textureVars, pageVars, viewVars>>

Spec == Init /\ [][Next]_vars

NextZoom ==
  \/ zoomIn /\ UNCHANGED <<dragVars, textureVars, pageVars, viewVars>>
  \/ zoomOut /\ UNCHANGED <<dragVars, textureVars, pageVars, viewVars>>

ZoomSpec == Init /\ [][NextZoom]_vars

NextTexture ==
  \/ EraChange /\ UNCHANGED <<dragVars, zoomVars, pageVars, viewVars>>
  \/ TextureLoaded /\ UNCHANGED <<dragVars, zoomVars, pageVars, viewVars>>
  \/ TextureError /\ UNCHANGED <<dragVars, zoomVars, pageVars, viewVars>>

TextureSpec == Init /\ [][NextTexture]_vars

NextView ==
  \/ Resize /\ UNCHANGED <<dragVars, zoomVars, textureVars, pageVars>>

ViewSpec == Init /\ [][NextView]_vars

(***************************************************************************)
(* Properties.                                                             *)
(***************************************************************************)

\* C1: in every reachable state of the drag/frame machine both momenta are
\* at most maxMomentum (0.15) in magnitude.
C1_MomentumBounded ==
  /\ Abs(momentumX) <= maxMomentum
  /\ Abs(momentumY) <= maxMomentum

\* a drag-move of (-89, 11) pixels: the raw -0.801 is clamped on x, the
\* 0.099 on y is not
C1_Witness ==
  /\ isDragging
  /\ previousMousePosition = [x |-> 11, y |-> 11]
  /\ momentumX = -maxMomentum
  /\ momentumY = 11 * sensitivity

AllOut(log) == \A i \in 1..Len(log) : log[i] = "out"

\* C2: over every sequence of zoom clicks the distance stays within
\* [0.5, 3.0]; after five or more zoom-outs and nothing else it is exactly
\* 3.0, and stays there under further zoom-outs.
C2_ZoomWithinBounds ==
  /\ MinZoom <= currentZoom /\ currentZoom <= MaxZoom
  /\ (AllOut(zoomLog) /\ Len(zoomLog) >= 5) => currentZoom = MaxZoom

C2_Witness ==
  /\ AllOut(zoomLog)
  /\ Len(zoomLog) = MaxClicks
  /\ currentZoom = MaxZoom

\* the click a step appends to zoomLog, "" when the step is no zoom click
Clicked == IF Len(zoomLog') = Len(zoomLog) + 1 THEN zoomLog'[Len(zoomLog')] ELSE ""

\* C3 as stated: every zoom click changes the distance by exactly 0.3.
C3_ExactStep ==
  [][/\ Clicked = "in" => currentZoom' = currentZoom - ZoomStep
     /\ Clicked = "out" => currentZoom' = currentZoom + ZoomStep]_vars

\* C3, amended: a zoom click changes the distance by exactly 0.3 toward its
\* bound when at least 0.3 remain to the bound, and otherwise sets it to the
\* bound.
C3_StepOrSaturate ==
  [][/\ Clicked = "in" =>
          currentZoom' = (IF currentZoom - MinZoom >= ZoomStep
                          THEN currentZoom - ZoomStep ELSE MinZoom)
     /\ Clicked = "out" =>
          currentZoom' = (IF MaxZoom - currentZoom >= ZoomStep
                          THEN currentZoom + ZoomStep ELSE MaxZoom)]_vars

\* five zoom-ins from 1.8: the fifth one, from 0.6, moves the distance by 0.1
C3_Witness ==
  /\ Len(zoomLog) = 5
  /\ \A i \in 1..5 : zoomLog[i] = "in"
  /\ currentZoom = MinZoom

\* C4 as stated, its release half: in every reachable state where neither a
\* mouse button nor a touch is held on the canvas, isDragging is false.
C4_NoDragWithoutHold ==
  isDragging => (mouseHeld \/ touches # <<>>)

\* C5: a step that ends a drag (isDragging goes from true to false) leaves
\* the momenta, the rotation and the last pointer position as they were.
C5_DragEndKeepsMomentum ==
  [][(isDragging /\ ~isDragging') =>
       UNCHANGED <<momentumX, momentumY, rotationX, rotationY,
                   previousMousePosition>>]_vars

\* just released, with the momentum of the last drag-move still in place
C5_Witness ==
  /\ ~isDragging
  /\ idleFrames = 0
  /\ ~mouseHeld /\ touches = <<>>
  /\ momentumX = -maxMomentum
  /\ momentumY = 11 * sensitivity

\* C6: once three idle frames have run since a drag end, with no drag start
\* since, both momenta are below 0.001, and every later idle frame adds the
\* auto-rotation constant 0.009 to rotationY (on top of what is left of
\* momentumX).
C6_AutoRotateAfterThreeFrames ==
  /\ [](idleFrames >= 3 =>
          /\ Abs(momentumX) < autoRotateThreshold
          /\ Abs(momentumY) < autoRotateThreshold)
  /\ [][(idleFrames >= 3 /\ idleFrames' = idleFrames + 1) =>
          rotationY' = rotationY + momentumX + rotationSpeed]_vars

\* a release at full momentum followed by four idle frames: the first frame
\* does not auto-rotate, the other three do
C6_Witness ==
  /\ idleFrames = 4
  /\ steps = 5
  /\ rotationY = rotationSpeed + 2 * maxMomentum + 15000 + 150 + 1
                   + 3 * rotationSpeed

\* C7 as stated: right after a fetch has ended in error the colour is the
\* fallback blue and no surface map is installed.
C7_ErrorMeansFallbackAndNoMap ==
  [][(lastDone' # lastDone /\ ~lastDone'.ok) =>
       (color' = FallbackColor /\ map' = NoMap)]_vars

\* what one fetch alone determines: its texture under the placeholder colour
\* when it succeeds, the fallback colour and no map when it fails
OutcomeOf(done) ==
  IF done.ok THEN [map |-> done.url, color |-> PlaceholderColor]
  ELSE [map |-> NoMap, color |-> FallbackColor]

\* C8 as stated: after loadTexture calls that overlapped, once every fetch
\* has completed the map and the colour are those determined by the fetch
\* that completed last.
C8_LastCompletionWins ==
  (overlapped /\ inflight = {} /\ lastDone.id # 0) =>
    [map |-> map, color |-> color] = OutcomeOf(lastDone)

KnownEras == {"modern", "ancient", "prehistoric", "dinosaurs", "formation"}

\* C9 as stated: a change to one of the five era keys starts one fetch, of
\* the locator bound to that key; a change to any other value starts no
\* fetch and leaves the colour, the map and the fetches in flight unchanged.
C9_OnlyKnownErasLoad ==
  [][(selectedEra' # selectedEra) =>
       IF selectedEra' \in KnownEras
       THEN \E f \in inflight' \ inflight :
              /\ f.url = eraTextures[selectedEra']
              /\ inflight' = inflight \cup {f}
       ELSE UNCHANGED <<color, map, inflight>>]_vars

\* the script has run to its end or was ended by an uncaught exception
Finished == pc \in {"done", "aborted"}

\* C10 as stated: when an element the try block needs is missing or the
\* renderer cannot be constructed (the year element being present), the
\* failure is caught once, the canvas is replaced by the error message and
\* the footer year is set.
C10_InitFailureHandled ==
  (/\ Finished
   /\ dom.year
   /\ ~(dom.canvas /\ dom.webgl /\ dom.display /\ dom.selector)) =>
    (caught = 1 /\ errorShown /\ ~canvasOnPage /\ yearSet)

\* C11: in every reachable state after the render loop has started exactly
\* one frame callback is pending, whatever pointer, touch and frame events
\* have occurred.
C11_OneFramePending ==
  pendingFrames = 1

\* frames have run between a drag, its release and the next press
C11_Witness ==
  /\ pendingFrames = 1
  /\ isDragging
  /\ steps = 3
  /\ momentumX = 150

\* C12: the renderer is size x size with size = min(400, 0.8 x width) (400
\* at width 1000, 240 at width 300), the camera aspect is exactly 1, and a
\* resize notification at an unchanged width changes neither.
C12_ResizeRenderer ==
  /\ [](/\ rendererSize = (IF 8 * innerWidth < 4000 THEN 8 * innerWidth ELSE 4000)
        /\ innerWidth = 1000 => rendererSize = 4000
        /\ innerWidth = 300 => rendererSize = 2400
        /\ cameraAspect = 1)
  /\ [][(resizeLog' # resizeLog /\ innerWidth' = innerWidth) =>
          UNCHANGED <<rendererSize, cameraAspect>>]_vars

\* two resize notifications in a row at width 300
C12_Witness ==
  /\ Len(resizeLog) = 2
  /\ resizeLog[1] = 300 /\ resizeLog[2] = 300
  /\ rendererSize = 2400
  /\ cameraAspect = 1

\* C13: while isDragging stays true, a step that is no drag-move (a frame
\* among them) changes neither rotation nor momentum, and a drag-move adds
\* exactly the new, clamped momenta to the rotation.
C13_RotationOncePerMove ==
  [][(isDragging /\ isDragging') =>
       IF steps' # steps
       THEN /\ rotationY' = rotationY + momentumX'
            /\ rotationX' = rotationX + momentumY'
       ELSE UNCHANGED <<rotationX, rotationY, momentumX, momentumY>>]_vars

\* one drag with two moves, of (11, 11) and (89, -11) pixels: the rotation
\* has advanced by 0.099 + 0.15 on y and by 0.099 - 0.099 on x
C13_Witness ==
  /\ isDragging
  /\ steps = 2
  /\ previousMousePosition = [x |-> 100, y |-> 0]
  /\ rotationY = rotationSpeed + 11 * sensitivity + maxMomentum
  /\ rotationX = 0
  /\ momentumY = -11 * sensitivity

\* m2 is m times 0.01
IsHundredthOf(m2, m) ==
  /\ Abs(m - 100 * m2) < 100
  /\ (m >= 0 => m2 >= 0) /\ (m <= 0 => m2 <= 0)

\* C14: while isDragging is false a step that is no frame (a pointer or
\* touch move among them) leaves momentum, rotation and the last pointer
\* position unchanged unless it starts a drag, and a step changes the momenta
\* only by multiplying both by 0.01.
C14_IdleMomentumOnlyDecays ==
  [][~isDragging =>
       /\ (~isDragging' /\ steps' = steps) =>
             UNCHANGED <<momentumX, momentumY, rotationX, rotationY,
                         previousMousePosition>>
       /\ \/ UNCHANGED <<momentumX, momentumY>>
          \/ /\ IsHundredthOf(momentumX', momentumX)
             /\ IsHundredthOf(momentumY', momentumY)]_vars

\* a finger still down after a mouseleave has ended the drag has moved: its
\* position is no longer the last pointer position, and the momentum of the
\* drag is still there
C14_Witness ==
  /\ ~isDragging
  /\ touches # <<>>
  /\ touches[1] # previousMousePosition
  /\ momentumX = maxMomentum
  /\ steps = 1

ClampedScaled(d) ==
  IF d * 90000 > 1500000 THEN 1500000
  ELSE IF d * 90000 < -1500000 THEN -1500000
  ELSE d * 90000

\* C15: a drag-move processed while isDragging is true sets each momentum to
\* the pointer delta times 0.009 clamped to [-0.15, 0.15], adds the new
\* momenta to the rotation, and records the current position; a delta of
\* (100, 0) gives momentumX = 0.15.
C15_DragMoveEffect ==
  [][(isDragging /\ steps' # steps) =>
       LET dx == previousMousePosition'.x - previousMousePosition.x
           dy == previousMousePosition'.y - previousMousePosition.y
       IN /\ momentumX' = ClampedScaled(dx)
          /\ momentumY' = ClampedScaled(dy)
          /\ rotationY' = rotationY + ClampedScaled(dx)
          /\ rotationX' = rotationX + ClampedScaled(dy)
          /\ (dx = 100 /\ dy = 0) => momentumX' = 1500000]_vars

\* the first move of a drag, from (0, 0) to (100, 0)
C15_Witness ==
  /\ isDragging
  /\ steps = 1
  /\ previousMousePosition = [x |-> 100, y |-> 0]
  /\ momentumX = 1500000 /\ momentumY = 0
  /\ rotationY = rotationSpeed + 1500000
  /\ rotationX = 0

\* C16: an idle frame after a release adds to rotationY the momentum it
\* found and, when both momenta are below 0.001 after its decay, the
\* auto-rotation constant as well; only the first frame after the release can
\* leave the auto-rotation out, and it does so exactly when a momentum it
\* found is at least 0.1 in magnitude.
C16_OnlyFirstFrameSkipsAutoRotation ==
  [][(idleFrames >= 0 /\ idleFrames' = idleFrames + 1) =>
       LET big == Abs(momentumX) >= 1000000 \/ Abs(momentumY) >= 1000000
       IN /\ big => idleFrames = 0
          /\ rotationY' = rotationY + momentumX + (IF big THEN 0 ELSE 90000)]_vars

\* a release at momentumX = momentumY = 0.099 and one idle frame: the frame has added
\* both the momentum and the auto-rotation
C16_Witness ==
  /\ idleFrames = 1
  /\ steps = 2
  /\ momentumX = 9900
  /\ rotationY = rotationSpeed + 2 * 990000 + 90000

\* C17: from the first loadTexture call on the colour is the placeholder or
\* the fallback blue, so an installed map is never shown under the original
\* colour; a success installs the map and leaves the colour alone, and a
\* loadTexture call sets the colour to the placeholder.
C17_ColourPlaceholderOrFallback ==
  /\ [](/\ color \in {3355443, 3368652}
        /\ map # NoMap => color # DefaultColor)
  /\ [][/\ (lastDone' # lastDone /\ lastDone'.ok) =>
             (color' = color /\ map' = lastDone'.url)
        /\ nextFetch' # nextFetch => color' = 3355443]_vars

\* a map loaded after an overlapping fetch has failed, shown under the
\* fallback blue
C17_Witness ==
  /\ map = eraTextures.ancient
  /\ color = FallbackColor
  /\ lastDone.ok

\* C18: a step that starts a drag leaves momentum and rotation unchanged,
\* and so does every step taken while dragging that is no drag-move (frames
\* and the release among them).
C18_PressKeepsMomentum ==
  [][/\ (~isDragging /\ isDragging') =>
          UNCHANGED <<momentumX, momentumY, rotationX, rotationY>>
     /\ (isDragging /\ steps' = steps) =>
          UNCHANGED <<momentumX, momentumY, rotationX, rotationY>>]_vars

\* after a drag that left momentumX = 0.15: a press at another position and
\* a release, with no move and no idle frame in between
C18_Witness ==
  /\ ~isDragging
  /\ idleFrames = 0
  /\ steps = 1
  /\ previousMousePosition = [x |-> 11, y |-> 11]
  /\ momentumX = maxMomentum

====
